---- MODULE Spec2Model ----
EXTENDS Integers, Naturals, Sequences, FiniteSets, TLC

\* Model of the wallet manager App (src/blockchain-wallet/src/app.rs):
\* the run loop, the keys-file refresh (check_for_updates), the seed file
\* codec (hex lines) and wallet generation (press_button).
\* Time is counted in units of 50 ms; the keys file is a sequence of lines.

\* ---------------------------------------------------------------- constants
SeedLen == 32
MinInterval == 2
PollUnits == 2

\* ---------------------------------------------------------------- bounds
MaxTime == 4
MaxLines == 2
MaxWrites == 2
MaxHex == 4 * SeedLen

NoneV == -1

Max2(a, b) == IF a >= b THEN a ELSE b

\* Seed values: 0 is the all-zero buffer, 1 a seed already in the file at
\* start and 2 a seed written by another process; OS entropy yields values
\* from FreshPool, each different from every value held anywhere in the state
ZeroSeed == 0
ExtSeed == 2
FreshPool == 3..(3 + 3 * MaxLines + MaxWrites + 2)
AllSeeds == {ZeroSeed, 1, ExtSeed} \cup FreshPool

\* A text line of the keys file: leading/trailing whitespace characters,
\* the number of hex digits between them, the value they spell and whether
\* the line is terminated by a newline (only the last line may not be).
Line(lead, hexlen, val, trail) ==
  [lead |-> lead, hexlen |-> hexlen, val |-> val, trail |-> trail, term |-> TRUE]

\* hex::encode(seed) written by writeln!: 64 lowercase hex digits, no padding
Encode(s) == Line(0, 2 * SeedLen, s, 0)

\* Lines an outside editor may add to the file
BlankLine == Line(1, 0, 0, 0)
ShortLine == Line(0, 2 * SeedLen - 2, 1, 0)
PaddedLine == Line(1, 2 * SeedLen, 2, 1)
EmptyLine == Line(0, 0, 0, 0)
ExtLines == {Encode(ExtSeed), BlankLine, ShortLine}

\* line.is_empty() without the trim
TrimmedEmptyNoTrim(l) == l.hexlen = 0 /\ l.lead + l.trail = 0

\* line.trim().is_empty()
TrimmedEmpty(l) == l.hexlen = 0

\* hex::decode(line) on the untrimmed line: any whitespace or an odd digit
\* count is an error; otherwise hexlen/2 bytes
HexDecode(l) ==
  IF l.lead + l.trail > 0 \/ l.hexlen % 2 = 1
  THEN [ok |-> FALSE, len |-> 0, val |-> 0]
  ELSE [ok |-> TRUE, len |-> l.hexlen \div 2, val |-> l.val]

\* load_wallets_from_file over the lines from index i on, seeds collected in acc
RECURSIVE LoadLines(_, _, _)
LoadLines(f, i, acc) ==
  IF i > Len(f) THEN [ok |-> TRUE, seeds |-> acc]
  ELSE IF TrimmedEmpty(f[i]) THEN LoadLines(f, i + 1, acc)
  ELSE LET d == HexDecode(f[i]) IN
       IF ~d.ok \/ d.len # SeedLen THEN [ok |-> FALSE, seeds |-> acc]
       ELSE LoadLines(f, i + 1, Append(acc, d.val))

\* load_wallets_from_file: missing file -> empty; ioOk = FALSE models an I/O
\* error of File::open or of a line read
LoadWallets(exists, f, ioOk) ==
  IF ~exists THEN [ok |-> TRUE, seeds |-> <<>>]
  ELSE IF ~ioOk THEN [ok |-> FALSE, seeds |-> <<>>]
  ELSE LoadLines(f, 1, <<>>)

\* load_seeds adopting whatever the failed load had collected
LoadSeedsPartial(seeds, r) == r.seeds

\* load_seeds: the new seeds field after a load with result r
LoadSeeds(seeds, r) == IF r.ok THEN r.seeds ELSE seeds

\* Sr25519Pair::from_seed(seed).public().to_ss58check()
Address(s) == <<"ss58", s>>

\* render: the wallet lines shown
Display(seeds) == [i \in 1..Len(seeds) |-> <<"Wallet", i, Address(seeds[i])>>]

NonBlankCount(f) == Cardinality({i \in 1..Len(f) : ~TrimmedEmpty(f[i])})

\* ---------------------------------------------------------------- state
VARIABLES
  running, button_pressed, seeds, last_check, last_modified,
  fileExists, file, mtime, now, pc, exitCause, ev,
  appended, extTouched, anyFail, initEmpty, prevLoaded, dirty, observed,
  pending, writes

vars == <<running, button_pressed, seeds, last_check, last_modified,
          fileExists, file, mtime, now, pc, exitCause, ev,
          appended, extTouched, anyFail, initEmpty, prevLoaded, dirty, observed,
          pending, writes>>

NoEv == [kind |-> "none", attempted |-> FALSE, statted |-> FALSE,
         loaded |-> FALSE, loadOk |-> FALSE, entropyOk |-> FALSE,
         appendOk |-> FALSE, seed |-> 0, reported |-> FALSE,
         cleanAfterLoad |-> FALSE, ioOk |-> TRUE, reload |-> FALSE,
         touched |-> FALSE]

\* the save in progress between the two writes of writeln!: its seed,
\* whether the entropy fill succeeded, and whether the open file is still the
\* one at keys_path (not unlinked since)
NoPending == [seed |-> NoneV, entropyOk |-> FALSE, live |-> FALSE]

InitFiles == {<<>>, <<Encode(1)>>, <<ShortLine>>}

\* App::new followed by the file contents found on disk
InitWith(files) ==
  /\ running = TRUE
  /\ button_pressed = FALSE
  /\ seeds = <<>>
  /\ last_check = NoneV
  /\ last_modified = NoneV
  /\ fileExists \in BOOLEAN
  /\ file \in IF fileExists THEN files ELSE {<<>>}
  /\ mtime = 0
  /\ now = 0
  /\ pc = "init"
  /\ exitCause = "none"
  /\ ev = NoEv
  /\ appended = <<>>
  /\ extTouched = FALSE
  /\ anyFail = FALSE
  /\ initEmpty = (file = <<>>)
  /\ prevLoaded = FALSE
  /\ dirty = FALSE
  /\ observed = NoneV
  /\ pending = NoPending
  /\ writes = 0

Init == InitWith(InitFiles)

\* run logging a failed startup load and entering the loop anyway
StartupIgnoreError ==
  /\ pc = "init"
  /\ \E ioOk \in BOOLEAN :
       LET r == LoadWallets(fileExists, file, ioOk) IN
       /\ running' = TRUE
       /\ seeds' = LoadSeeds(seeds, r)
       /\ pc' = "check"
       /\ exitCause' = IF r.ok THEN "none" ELSE "startup"
       /\ ev' = [NoEv EXCEPT !.kind = "startup", !.loaded = TRUE, !.ioOk = ioOk,
                             !.loadOk = r.ok, !.reported = ~r.ok]
  /\ UNCHANGED <<writes, pending, observed, button_pressed, last_check, last_modified, fileExists, file,
                 mtime, now, appended, extTouched, anyFail, initEmpty,
                 prevLoaded, dirty>>

\* run: self.running = true; self.load_seeds()?
Startup ==
  /\ pc = "init"
  /\ \E ioOk \in BOOLEAN :
       LET r == LoadWallets(fileExists, file, ioOk) IN
       /\ running' = TRUE
       /\ seeds' = LoadSeeds(seeds, r)
       /\ pc' = IF r.ok THEN "check" ELSE "exited"
       /\ exitCause' = IF r.ok THEN "none" ELSE "startup"
       /\ ev' = [NoEv EXCEPT !.kind = "startup", !.loaded = TRUE, !.ioOk = ioOk,
                             !.loadOk = r.ok, !.reported = ~r.ok]
  /\ UNCHANGED <<writes, pending, observed, button_pressed, last_check, last_modified, fileExists, file,
                 mtime, now, appended, extTouched, anyFail, initEmpty,
                 prevLoaded, dirty>>

\* check_for_updates: the refresh is due when no check happened yet or at
\* least 100 ms passed since the last one
DueStrict(lc, n) == lc = NoneV \/ n - lc > MinInterval

Due(lc, n) == lc = NoneV \/ ~(n - lc < MinInterval)

\* check_for_updates reloading only when no modification time is recorded
ChangedFirstOnly(lm, mt) == lm = NoneV

\* check_for_updates: the file counts as changed when no modification time
\* is recorded or the observed one differs
Changed(lm, mt) == lm = NoneV \/ lm # mt

\* check_for_updates: last_modified after a stat that observed mt
NewWatermarkStale(lm, mt) == lm

NewWatermark(lm, mt) == mt

\* check_for_updates going straight to path.metadata()
FileSeenAlways(exists) == TRUE

\* check_for_updates: path.exists()
FileSeen(exists) == exists

\* check_for_updates: throttle on last_check, then stat the file and reload
\* when its modification time differs from last_modified
CheckForUpdates ==
  /\ pc = "check"
  /\ IF ~Due(last_check, now)
     THEN /\ pc' = "poll"
          /\ ev' = [NoEv EXCEPT !.kind = "check"]
          /\ UNCHANGED <<seeds, last_check, last_modified, exitCause, prevLoaded, dirty, observed>>
     ELSE /\ last_check' = now
          /\ dirty' = FALSE
          /\ IF ~FileSeen(fileExists)
             THEN /\ pc' = "poll"
                  /\ prevLoaded' = FALSE
                  /\ ev' = [NoEv EXCEPT !.kind = "check", !.attempted = TRUE,
                                             !.cleanAfterLoad = prevLoaded /\ ~dirty]
                  /\ UNCHANGED <<seeds, last_modified, exitCause, observed>>
             ELSE \E statOk \in BOOLEAN :
                  IF ~statOk
                  THEN /\ pc' = "poll"
                       /\ prevLoaded' = FALSE
                       /\ ev' = [NoEv EXCEPT !.kind = "check", !.attempted = TRUE,
                                             !.cleanAfterLoad = prevLoaded /\ ~dirty,
                                             !.reported = TRUE]
                       /\ UNCHANGED <<seeds, last_modified, exitCause, observed>>
                  ELSE IF Changed(last_modified, mtime)
                  THEN /\ last_modified' = NewWatermark(last_modified, mtime)
                       /\ observed' = mtime
                       /\ prevLoaded' = TRUE
                       /\ pc' = "load"
                       /\ ev' = [NoEv EXCEPT !.kind = "check", !.attempted = TRUE,
                                             !.cleanAfterLoad = prevLoaded /\ ~dirty,
                                             !.statted = TRUE, !.reload = TRUE]
                       /\ UNCHANGED <<seeds, exitCause>>
                  ELSE /\ pc' = "poll"
                       /\ prevLoaded' = FALSE
                       /\ ev' = [NoEv EXCEPT !.kind = "check", !.attempted = TRUE,
                                             !.cleanAfterLoad = prevLoaded /\ ~dirty,
                                             !.statted = TRUE]
                       /\ UNCHANGED <<seeds, last_modified, exitCause, observed>>
  /\ UNCHANGED <<writes, pending, running, button_pressed, fileExists, file, mtime, now,
                 appended, extTouched, anyFail, initEmpty>>

\* check_for_updates, line 94: self.load_seeds()? after the stat; the file is
\* read again (path.exists, File::open, lines) and may have changed since
LoadStep ==
  /\ pc = "load"
  /\ \E ioOk \in BOOLEAN :
       LET r == LoadWallets(fileExists, file, ioOk) IN
       /\ seeds' = LoadSeeds(seeds, r)
       /\ pc' = IF r.ok THEN "poll" ELSE "exited"
       /\ exitCause' = IF r.ok THEN "none" ELSE "refresh"
       /\ ev' = [NoEv EXCEPT !.kind = "load", !.loaded = TRUE, !.ioOk = ioOk,
                             !.loadOk = r.ok, !.reported = ~r.ok]
  /\ observed' = NoneV
  /\ UNCHANGED <<writes, pending, running, button_pressed, last_check, last_modified, fileExists,
                 file, mtime, now, appended, extTouched, anyFail, initEmpty,
                 prevLoaded, dirty>>

\* terminal.draw(render)? then event::poll(100 ms)?: either an input event
\* arrives within the timeout, or the timeout elapses, or a terminal I/O error
\* of draw, poll or event::read ends run with Err, or the terminal hangs it
Poll ==
  /\ pc = "poll"
  /\ \E d \in 0..PollUnits :
       LET t == now + d IN
       /\ IF t <= MaxTime
          THEN /\ now' = t
               /\ UNCHANGED last_check
          \* only whether now - last_check reaches MinInterval is ever read
          \* (duration_since in check_for_updates): shift the time axis back
          ELSE /\ now' = MaxTime
               /\ last_check' = IF last_check = NoneV THEN NoneV
                                ELSE Max2(last_check - (t - MaxTime), MaxTime - MinInterval)
       /\ \/ pc' = "event" /\ UNCHANGED exitCause
          \/ d = PollUnits /\ pc' = "check" /\ UNCHANGED exitCause
          \/ pc' = "exited" /\ exitCause' = "terminal"
          \* after a terminal hang-up event::poll may never return
          \/ pc' = "hung" /\ exitCause' = "terminal"
  /\ ev' = [NoEv EXCEPT !.kind = "poll"]
  /\ UNCHANGED <<writes, pending, observed, running, button_pressed, seeds, last_modified,
                 fileExists, file, mtime, appended, extTouched,
                 anyFail, initEmpty, prevLoaded, dirty>>

\* every seed value held in the state (file lines, loaded seeds, saved seeds,
\* the save in progress)
UsedVals ==
  {file[i].val : i \in 1..Len(file)} \cup {seeds[i] : i \in 1..Len(seeds)}
  \cup {appended[i] : i \in 1..Len(appended)} \cup {pending.seed}

\* a value of FreshPool not in U: a new OS entropy draw (or a new mixture of
\* digits) differs from everything already present
Fresh(U) == CHOOSE v \in FreshPool : v \notin U

\* the modification time given by a write: different from the current one
\* and from every time the program has recorded (only equality is ever read)
NextMtime == CHOOSE t \in 0..3 : t \notin {mtime, last_modified, observed}

\* generate_random_wallet with a new draw r: try_fill_bytes' result is
\* discarded, so a failed fill leaves the buffer all zero or partially filled
\* (itself a value no other seed has)
GenSeeds(entropyOk, r) == IF entropyOk THEN {r} ELSE {ZeroSeed, r}

\* the value spelled by the digits of line x followed by digits spelling b:
\* b itself when x has no digits, otherwise the new mixture m
MixVal(x, b, m) == IF x.hexlen = 0 THEN b ELSE m

\* bytes written to the end of a file: k hex digits of seed s (mixture m if
\* they continue an unterminated last line)
WriteDigits(f, k, s, m) ==
  IF Len(f) > 0 /\ ~f[Len(f)].term
  THEN [f EXCEPT ![Len(f)] = [lead |-> f[Len(f)].lead,
                              hexlen |-> f[Len(f)].hexlen + k,
                              val |-> MixVal(f[Len(f)], s, m),
                              trail |-> f[Len(f)].trail, term |-> FALSE]]
  ELSE Append(f, [Line(0, k, s, 0) EXCEPT !.term = FALSE])

\* the hex digits of the seed written to a file opened with truncate
WriteSeedHexTruncate(f, s, m) == <<[Encode(s) EXCEPT !.term = FALSE]>>

\* save_wallet_to_file, first write of writeln!: the 64 digits of hex::encode
WriteSeedHex(f, s, m) == WriteDigits(f, 2 * SeedLen, s, m)

\* second write of writeln!: "\n" ends the last line, or is an empty line of
\* its own when another writer already ended it
WriteNewline(f) ==
  IF Len(f) > 0 /\ ~f[Len(f)].term
  THEN [f EXCEPT ![Len(f)].term = TRUE]
  ELSE Append(f, EmptyLine)

\* digits a failing write_all of the 64 digits may have written before its
\* error: a short prefix and a long one (62 + 2 digits left by two failed
\* saves make a loadable 64-digit line)
PartialDigits == {2, 2 * SeedLen - 2}

\* outcomes of open + the first write of save_wallet_to_file(keys_path, s):
\* all digits written (the newline follows in PressNewline); open fails; open
\* (create) succeeds and the write fails at once (no byte written, but the
\* file is created or its mtime updated, as on ENOSPC); the write fails partway
SaveOutcomes(exists, f, s, m) ==
  {[ok |-> TRUE, exists |-> TRUE, f |-> WriteSeedHex(f, s, m), touched |-> TRUE],
   [ok |-> FALSE, exists |-> exists, f |-> f, touched |-> FALSE],
   [ok |-> FALSE, exists |-> TRUE, f |-> f, touched |-> TRUE]}
  \cup {[ok |-> FALSE, exists |-> TRUE, f |-> WriteDigits(f, k, s, m), touched |-> TRUE] :
         k \in PartialDigits}

\* room left for the digits in the bounded model
HexRoom(f, k) ==
  IF Len(f) = 0 THEN TRUE ELSE f[Len(f)].term \/ f[Len(f)].hexlen + k <= MaxHex

\* press_button showing the new seed even when saving it failed
PressButtonGhost ==
  /\ pc = "event"
  /\ Len(file) < MaxLines /\ writes < MaxWrites /\ HexRoom(file, 2 * SeedLen)
  /\ button_pressed' = TRUE
  /\ \E entropyOk \in BOOLEAN :
     \E s \in GenSeeds(entropyOk, Fresh(UsedVals)) :
     LET m == Fresh(UsedVals \cup {s}) IN
     \E o \in SaveOutcomes(fileExists, file, s, m) :
       /\ fileExists' = o.exists
       /\ file' = o.f
       /\ mtime' = IF o.touched THEN NextMtime ELSE mtime
       /\ writes' = IF o.touched THEN writes + 1 ELSE writes
       /\ dirty' = (dirty \/ o.touched)
       /\ anyFail' = (anyFail \/ ~entropyOk \/ ~o.ok)
       /\ seeds' = Append(seeds, s)
       /\ IF o.ok
          THEN /\ pc' = "newline"
               /\ pending' = [seed |-> s, entropyOk |-> entropyOk, live |-> TRUE]
               /\ ev' = [NoEv EXCEPT !.kind = "pressDigits", !.entropyOk = entropyOk,
                                     !.seed = s, !.touched = TRUE]
          ELSE /\ pc' = IF running THEN "check" ELSE "done"
               /\ UNCHANGED pending
               /\ ev' = [NoEv EXCEPT !.kind = "press", !.entropyOk = entropyOk,
                                     !.seed = s, !.reported = TRUE,
                                     !.touched = o.touched]
  /\ UNCHANGED <<observed, running, last_check, last_modified, now, exitCause,
                 appended, extTouched, initEmpty, prevLoaded>>

\* on_key_event 'a' -> press_button: button_pressed = true,
\* generate_random_wallet, then save_wallet_to_file up to its first write;
\* an error is only printed
PressButton ==
  /\ pc = "event"
  /\ Len(file) < MaxLines /\ writes < MaxWrites /\ HexRoom(file, 2 * SeedLen)
  /\ button_pressed' = TRUE
  /\ \E entropyOk \in BOOLEAN :
     \E s \in GenSeeds(entropyOk, Fresh(UsedVals)) :
     LET m == Fresh(UsedVals \cup {s}) IN
     \E o \in SaveOutcomes(fileExists, file, s, m) :
       /\ fileExists' = o.exists
       /\ file' = o.f
       /\ mtime' = IF o.touched THEN NextMtime ELSE mtime
       /\ writes' = IF o.touched THEN writes + 1 ELSE writes
       /\ dirty' = (dirty \/ o.touched)
       /\ anyFail' = (anyFail \/ ~entropyOk \/ ~o.ok)
       /\ IF o.ok
          THEN /\ pc' = "newline"
               /\ pending' = [seed |-> s, entropyOk |-> entropyOk, live |-> TRUE]
               /\ ev' = [NoEv EXCEPT !.kind = "pressDigits", !.entropyOk = entropyOk,
                                     !.seed = s, !.touched = TRUE]
          ELSE /\ pc' = IF running THEN "check" ELSE "done"
               /\ UNCHANGED pending
               /\ ev' = [NoEv EXCEPT !.kind = "press", !.entropyOk = entropyOk,
                                     !.seed = s, !.reported = TRUE,
                                     !.touched = o.touched]
  /\ UNCHANGED <<observed, running, seeds, last_check, last_modified, now, exitCause,
                 appended, extTouched, initEmpty, prevLoaded>>

\* press_button, rest of save_wallet_to_file: the second write of writeln!
\* ("\n"); it succeeds, or fails with no byte written (the mtime updated or
\* not); if the file was unlinked since the open, it goes to the old inode
PressNewline ==
  /\ pc = "newline"
  /\ \E ok \in BOOLEAN, touched \in BOOLEAN :
       /\ ok => touched
       /\ IF pending.live /\ touched
          THEN /\ mtime' = NextMtime
               /\ file' = IF ok THEN WriteNewline(file) ELSE file
               /\ dirty' = TRUE
          ELSE UNCHANGED <<mtime, file, dirty>>
       /\ appended' = IF ok THEN Append(appended, pending.seed) ELSE appended
       /\ anyFail' = (anyFail \/ ~ok)
       /\ ev' = [NoEv EXCEPT !.kind = "press", !.entropyOk = pending.entropyOk,
                             !.appendOk = ok, !.seed = pending.seed, !.reported = ~ok,
                             !.touched = pending.live /\ touched]
  /\ pending' = NoPending
  /\ pc' = IF running THEN "check" ELSE "done"
  /\ UNCHANGED <<writes, observed, running, button_pressed, seeds, last_check, last_modified,
                 fileExists, now, exitCause, extTouched, initEmpty, prevLoaded>>

\* on_key_event Esc / 'q' / Ctrl-C -> quit; the while loop then ends
Quit ==
  /\ pc = "event"
  /\ running' = FALSE
  /\ pc' = "done"
  /\ exitCause' = "quit"
  /\ ev' = [NoEv EXCEPT !.kind = "quit"]
  /\ UNCHANGED <<writes, pending, observed, button_pressed, seeds, last_check, last_modified, fileExists,
                 file, mtime, now, appended, extTouched, anyFail, initEmpty,
                 prevLoaded, dirty>>

\* any other event (mouse, resize, other key) changes nothing
OtherEvent ==
  /\ pc = "event"
  /\ pc' = "check"
  /\ ev' = [NoEv EXCEPT !.kind = "other"]
  /\ UNCHANGED <<writes, pending, observed, running, button_pressed, seeds, last_check, last_modified,
                 fileExists, file, mtime, now, exitCause, appended, extTouched,
                 anyFail, initEmpty, prevLoaded, dirty>>

\* appending the text of line l (and its newline) to a file: an unterminated
\* last line is continued (its value becoming the mixture m), its whitespace
\* ends up inside or after the digits
ContinueLine(f, l, m) ==
  IF Len(f) > 0 /\ ~f[Len(f)].term
  THEN [f EXCEPT ![Len(f)] = [lead |-> f[Len(f)].lead,
                              hexlen |-> f[Len(f)].hexlen + l.hexlen,
                              val |-> MixVal(f[Len(f)], l.val, m),
                              trail |-> f[Len(f)].trail + l.lead + l.trail,
                              term |-> TRUE]]
  ELSE Append(f, l)

\* another process or a user appends a line to the keys file (O_APPEND)
ExternalAppend ==
  /\ pc \notin {"done", "exited", "hung"}
  /\ Len(file) < MaxLines /\ writes < MaxWrites
  /\ \E l \in ExtLines :
       /\ HexRoom(file, l.hexlen)
       /\ fileExists' = TRUE
       /\ file' = ContinueLine(file, l, Fresh(UsedVals))
       /\ mtime' = NextMtime
  /\ writes' = writes + 1
  /\ extTouched' = TRUE
  /\ dirty' = TRUE
  /\ ev' = [NoEv EXCEPT !.kind = "external"]
  /\ UNCHANGED <<pending, observed, running, button_pressed, seeds, last_check, last_modified,
                 now, pc, exitCause, appended, anyFail, initEmpty, prevLoaded>>

\* another process or a user deletes the keys file; a save in progress keeps
\* writing to the unlinked inode
ExternalDelete ==
  /\ pc \notin {"done", "exited", "hung"}
  /\ fileExists
  /\ fileExists' = FALSE
  /\ file' = <<>>
  /\ pending' = [pending EXCEPT !.live = FALSE]
  /\ extTouched' = TRUE
  /\ dirty' = TRUE
  /\ ev' = [NoEv EXCEPT !.kind = "external"]
  /\ UNCHANGED <<writes, observed, running, button_pressed, seeds, last_check, last_modified,
                 mtime, now, pc, exitCause, appended, anyFail, initEmpty, prevLoaded>>

Next ==
  \/ Startup
  \/ CheckForUpdates
  \/ LoadStep
  \/ Poll
  \/ PressButton
  \/ PressNewline
  \/ Quit
  \/ OtherEvent
  \/ ExternalAppend
  \/ ExternalDelete

Spec == Init /\ [][Next]_vars

\* The run loop is single threaded: each step it reaches is eventually taken,
\* an input event is eventually handled and the 100 ms poll eventually
\* times out (no endless stream of events); a failing stat of an existing
\* file is transient (path.exists succeeded on the same metadata call)
FairSpec ==
  /\ Spec
  /\ WF_vars(Startup) /\ WF_vars(CheckForUpdates) /\ WF_vars(LoadStep) /\ WF_vars(Poll)
  /\ WF_vars(PressButton \/ Quit \/ OtherEvent) /\ WF_vars(PressNewline)
  /\ SF_vars(Poll /\ pc' = "check")
  /\ SF_vars(CheckForUpdates /\ ev'.statted)

\* The startup load of run applied to every keys file of up to CodecLen
\* lines drawn from CodecLines
CodecLen == 3
CodecLines == {Encode(0), Encode(1), Encode(2), BlankLine, EmptyLine, ShortLine, PaddedLine}
RECURSIVE SeqsUpTo(_, _)
SeqsUpTo(S, n) == IF n = 0 THEN {<<>>}
                  ELSE SeqsUpTo(S, n - 1) \cup {Append(q, l) : q \in SeqsUpTo(S, n - 1), l \in S}
CodecFiles == SeqsUpTo(CodecLines, CodecLen)

CodecSpec == InitWith(CodecFiles) /\ [][Startup]_vars

\* ---------------------------------------------------------------- claims

\* helpers of the codec claims: the line with its whitespace removed, the
\* non-blank lines of a file, and files whose records are all encodings
Trim(l) == [l EXCEPT !.lead = 0, !.trail = 0]
NonBlank(f) == SelectSeq(f, LAMBDA l : l.hexlen # 0)
WellFormed(f) == \A i \in 1..Len(f) : f[i].hexlen = 0 \/ f[i] \in {Encode(s) : s \in AllSeeds}

\* C1: after a generate whose entropy draw and append both succeed, the
\* in-memory seed sequence is extended by exactly the new seed in that step.
C1_EagerAppend ==
  [][(ev'.kind = "press" /\ ev'.entropyOk /\ ev'.appendOk)
       => seeds' = Append(seeds, ev'.seed)]_vars

\* C2: a successful local append sets the watermark to the file's new
\* modification time in the same step.
C2_WatermarkOnAppend ==
  [][(ev'.kind = "press" /\ ev'.appendOk) => last_modified' = mtime']_vars

\* C3: a refresh failure inside the loop never ends the process; only the
\* startup load (or a quit) ends it.
C3_RefreshFailureSwallowed == exitCause # "refresh"

\* C4: a refresh whose load fails leaves the in-memory sequence as it was.
C4_FailedRefreshKeepsSeeds ==
  [][(ev'.kind = "load" /\ ~ev'.loadOk) => seeds' = seeds]_vars

C4_Witness ==
  /\ ev.kind = "load" /\ ~ev.loadOk
  /\ seeds # <<>>
  /\ \E i \in 1..Len(file) : file[i] = ShortLine

\* C5: a generate whose entropy draw fails appends no line and leaves the
\* sequence length unchanged.
C5_EntropyFailureAborts ==
  [][(ev'.kind \in {"press", "pressDigits"} /\ ~ev'.entropyOk)
       => (file' = file /\ Len(seeds') = Len(seeds))]_vars

\* C6: a generate whose append fails reports it, keeps the loop running and
\* leaves the in-memory sequence unchanged.
C6_AppendFailureNoGhost ==
  [][(ev'.kind = "press" /\ ~ev'.appendOk)
       => (ev'.reported /\ seeds' = seeds /\ running' /\ pc' = "check")]_vars

C6_Witness ==
  ev.kind = "press" /\ ev.entropyOk /\ ~ev.appendOk /\ pc = "check"

\* C7: from an empty store and file, after n >= 1 successful generates, a
\* fresh load of the file equals the in-memory sequence.
C7_AppendThenLoad ==
  (initEmpty /\ ~extTouched /\ ~anyFail /\ Len(appended) >= 1
     /\ pc \in {"check", "poll", "event"})
    => LoadWallets(fileExists, file, TRUE).seeds = seeds

\* C8: empty file, two generates: the sequence has length 2, the file two
\* non-blank lines, and Wallet 1/2 show the addresses of seed 1/2.
C8_EndToEnd ==
  (initEmpty /\ ~extTouched /\ ~anyFail /\ Len(appended) = 2 /\ ev.kind = "press")
    => /\ Len(seeds) = 2
       /\ NonBlankCount(file) = 2
       /\ Display(seeds) = <<<<"Wallet", 1, Address(appended[1])>>,
                             <<"Wallet", 2, Address(appended[2])>>>>

\* C9: a refresh attempt that follows a loading refresh with no file
\* modification in between (nor during it) does not load.
C9_WatermarkStability ==
  [][(ev'.kind = "check" /\ ev'.attempted /\ prevLoaded /\ ~dirty) => ~ev'.reload]_vars

C9_Witness ==
  ev.kind = "check" /\ ev.attempted /\ ev.statted /\ ev.cleanAfterLoad

\* C10: a check stats the file only when 100 ms passed since the last
\* attempt (or there was none), and every attempt records its time.
C10_Throttle ==
  [][ev'.kind = "check" =>
       /\ (ev'.attempted <=> (last_check = NoneV \/ now - last_check >= MinInterval))
       /\ (ev'.statted => ev'.attempted)
       /\ (ev'.attempted => last_check' = now)
       /\ (~ev'.attempted => last_check' = last_check)]_vars

C10_Witness ==
  ev.kind = "check" /\ ev.attempted /\ now >= MinInterval /\ last_check = now

\* C11: load trims each line before decoding, so a valid 64-digit seed line
\* with surrounding whitespace decodes to its seed instead of failing.
C11_TrimBeforeDecode ==
  (/\ ev.kind = "startup" /\ ev.ioOk /\ fileExists
   /\ \E i \in 1..Len(file) : file[i] = PaddedLine
   /\ \A i \in 1..Len(file) : file[i].hexlen = 0 \/ Trim(file[i]) \in {Encode(s) : s \in AllSeeds})
    => ev.loadOk

\* C12: load of a missing file is the empty sequence; load of a file whose
\* non-blank lines are encoded seeds is those seeds in file order (blank
\* lines skipped, encode round-trips).
C12_LoadContract ==
  (ev.kind = "startup" /\ ev.ioOk) =>
    /\ (~fileExists => (ev.loadOk /\ seeds = <<>>))
    /\ ((fileExists /\ WellFormed(file)) =>
          (ev.loadOk /\ seeds = [i \in 1..Len(NonBlank(file)) |-> NonBlank(file)[i].val]))

\* C13: under fair execution, while the loop runs, a well-formed file whose
\* modification time differs from the watermark is eventually reflected in
\* the in-memory sequence unless the process quits, the terminal fails or
\* the file changes again.
Synced == seeds = LoadWallets(fileExists, file, TRUE).seeds
Modifying == ev.kind = "external" \/ (ev.kind \in {"press", "pressDigits"} /\ ev.touched)
C13_Pending ==
  running /\ pc \in {"check", "load", "poll", "event"} /\ fileExists /\ WellFormed(file)
  /\ last_modified # mtime
TerminalExit == exitCause = "terminal"
C13_EventualSync == C13_Pending ~> (Synced \/ ~running \/ TerminalExit \/ Modifying)

\* C13 amended: the same, except that a reload of the changed file may fail
\* (the watermark is then already advanced, so that content is not reloaded
\* until the file changes again).
FailedReload == ev.kind = "load" /\ ~ev.loadOk
C13_EventualSyncUnlessReloadFails ==
  C13_Pending ~> (Synced \/ ~running \/ TerminalExit \/ Modifying \/ FailedReload)

C13_Witness == ev.kind = "load" /\ ev.loadOk /\ extTouched /\ Synced /\ seeds # <<>>

\* C14: no step of this process rewrites or reorders the file: its content
\* before each non-external step is a prefix of its content after it.
\* the text of file a is a prefix of the text of file b: its lines are lines of
\* b, except that an unterminated last line may have been continued
LinePrefix(x, y) ==
  x = y \/ (~x.term /\ x.lead = y.lead /\ x.lead = 0 /\ y.hexlen >= x.hexlen)
IsPrefix(a, b) ==
  /\ Len(a) <= Len(b)
  /\ \A i \in 1..Len(a) : IF i < Len(a) THEN a[i] = b[i] ELSE LinePrefix(a[i], b[i])
C14_AppendOnly == [][ev'.kind # "external" => IsPrefix(file, file')]_vars

C14_Witness == ev.kind = "press" /\ ev.appendOk /\ Len(file) = 2

\* C15: the in-memory sequence only ever changes to the complete decoding of
\* the file as it is at that step (starting empty), never a partial one.
C15_SeedsAreCompleteDecodings ==
  [][seeds' # seeds =>
       (ev'.loaded /\ ev'.loadOk /\ seeds' = LoadWallets(fileExists, file, TRUE).seeds)]_vars

C15_Witness == ev.kind = "load" /\ ev.loadOk /\ seeds # <<>>

\* C16: a refresh attempt on a missing file performs no stat and no load and
\* leaves the sequence and the watermark unchanged.
C16_MissingFileNoop ==
  [][(ev'.kind = "check" /\ ev'.attempted /\ ~fileExists) =>
       (~ev'.statted /\ ~ev'.reload /\ pc' = "poll" /\ seeds' = seeds
          /\ last_modified' = last_modified)]_vars

C16_Witness == ev.kind = "check" /\ ev.attempted /\ ~fileExists /\ seeds # <<>>

\* C17: the "new wallet generated" flag turns on only in a generate whose
\* entropy draw and append both succeeded.
C17_FlagOnlyAfterAppend ==
  [][(~button_pressed /\ button_pressed') =>
       (ev'.kind = "press" /\ ev'.entropyOk /\ ev'.appendOk)]_vars

\* C18: a refresh that loads has set the watermark to the observed time,
\* whether or not the load succeeds; after a failed load no later load runs.
C18_WatermarkBeforeLoad ==
  [][/\ (ev'.kind = "load" => (observed # NoneV /\ last_modified = observed))
     /\ (exitCause = "refresh" => ~ev'.loaded)]_vars

C18_Witness == ev.kind = "load" /\ ~ev.loadOk /\ last_modified # NoneV

\* C19: a failed startup load ends the process before the loop: no refresh
\* attempt and no generate ever happens.
C19_StartupFailureFatal ==
  exitCause = "startup" =>
    (pc = "exited" /\ last_check = NoneV /\ ~button_pressed /\ appended = <<>>)

C19_Witness == exitCause = "startup" /\ fileExists /\ file = <<ShortLine>>

C12_Witness ==
  /\ ev.kind = "startup" /\ ev.loadOk /\ fileExists /\ Len(seeds) = 2
  /\ \E i \in 1..Len(file) : 1 < i /\ i < Len(file) /\ file[i].hexlen = 0

====
